---------------------------- MODULE Spec2Model ----------------------------
(***************************************************************************)
(* Betting platform program (programs/betting-platform): the registry      *)
(* (MainState), the markets (PoolState), their probability history         *)
(* (PoolHistoryState), the per-(market, user) entries (EntryState) and     *)
(* the lamport vault, with one action per instruction of lib.rs.           *)
(*                                                                         *)
(* An instruction is a ledger transaction: it commits all of its writes    *)
(* and its lamport transfer, or it returns an error and commits nothing.   *)
(* Every action therefore computes the handler's result first and applies  *)
(* the handler's writes only when the result is "Ok".  The variable `last` *)
(* records the instruction that ran last, its signer, its inputs, its      *)
(* result and the lamports it moved out of the vault.                      *)
(*                                                                         *)
(* Amounts are lamports and outcome tokens as in the program.  TLC         *)
(* computes with 32-bit integers, so every product a*b/c of the program's  *)
(* u128 arithmetic goes through MulDiv, which yields the exact quotient    *)
(* without forming a*b, and the deposit amounts are bounded so that all    *)
(* stored values stay below 2^31 (far below u64::MAX: no narrowing cast    *)
(* and no saturating add or mul of the program can trip in these runs).    *)
(***************************************************************************)
EXTENDS Integers, Sequences, FiniteSets, TLC

VARIABLES
    main_state,     \* MainState account, or its absence before init_main_state
    pool_state,     \* bet_id -> PoolState, for the markets created so far
    history_state,  \* bet_id -> PoolHistoryState.points
    entry_state,    \* <<bet_id, user>> -> EntryState, for the entries opened
    sol_vault,      \* lamports held by the vault PDA
    transfers,      \* bet_id -> lamports the vault has paid out for the market
    now,            \* Clock::get()?.unix_timestamp
    last            \* the instruction that ran last and its result

vars == <<main_state, pool_state, history_state, entry_state, sol_vault,
          transfers, now, last>>

-----------------------------------------------------------------------------
(* Program constants. *)

INITIAL_PRICE == 100000000
SCALE_FACTOR == 10000000
CREATOR_FEE_PERCENT == 100
PLATFORM_FEE_PERCENT == 200
VIRTUAL_AMOUNT == 1000000000
SCALE == 1000000000
MAX_POINTS == 40
BPS_DENOMINATOR == 10000
MAX_TITLE_LEN == 100
MAX_DESCRIPTION_LEN == 500
\* rent.minimum_balance(0): the rent-exempt minimum of a data-less account
\* (128 bytes of account overhead * 3480 lamports per byte-year * 2 years).
RentMinimum == 890880

-----------------------------------------------------------------------------
(* Arithmetic. *)

\* u128::saturating_sub
SatSub(a, b) == IF a >= b THEN a - b ELSE 0

\* Sum of two <<quotient, remainder>> pairs to the divisor c.
QRAdd(x, y, c) ==
    IF x[2] >= c - y[2]
    THEN <<x[1] + y[1] + 1, x[2] - (c - y[2])>>
    ELSE <<x[1] + y[1], x[2] + y[2]>>

\* The pair x times 2^k.
RECURSIVE QRShl(_, _, _)
QRShl(x, k, c) ==
    IF x = <<0, 0>> THEN x
    ELSE IF k = 1 THEN QRAdd(x, x, c)
    ELSE QRShl(QRShl(x, k \div 2, c), k - k \div 2, c)

\* <<(a * b) \div c, (a * b) % c>> for b < 2^n, n a power of two: the product
\* of a and the high half of b, shifted, plus the product of a and the low half.
RECURSIVE MulDivQR(_, _, _, _)
MulDivQR(a, b, c, n) ==
    IF b = 0 THEN <<0, 0>>
    ELSE IF n = 1 THEN <<a \div c, a % c>>
    ELSE LET h == n \div 2 IN
         QRAdd(QRShl(MulDivQR(a, b \div 2^h, c, h), h, c),
               MulDivQR(a, b % 2^h, c, h), c)

\* (a as u128).checked_mul(b as u128) then checked_div(c as u128): the exact
\* quotient, the product never being formed in one machine word.
MulDiv(a, b, c) == MulDivQR(a, b, c, 32)[1]


-----------------------------------------------------------------------------
(* Identities, strings and options. *)

\* The signers (Pubkey).
Keys == {"k1", "k2", "k3"}

\* A String is the sequence of its characters; len() is its length.
Str(n) == [i \in 1..n |-> "x"]

\* Option<T>: None is the empty set, Some(v) the set {v}.
None == {}
Some(v) == {v}
IsSome(o) == o # {}
Unwrap(o) == CHOOSE v \in o : TRUE

-----------------------------------------------------------------------------
(* Accounts. *)

\* The registry PDA before init_main_state has created it.
NoMainState ==
    [initialized |-> FALSE, owner |-> "", scale_factor |-> 0,
     initial_price |-> 0, current_bet_id |-> 0,
     creator_fee_percent |-> 0, platform_fee_percent |-> 0]

\* Account<PoolState> / Account<EntryState> deserialize only an account that
\* exists: the PDA of a bet_id (and user) that was never created is rejected
\* before the handler runs.
PoolExists(bet_id) == bet_id \in DOMAIN pool_state
EntryExists(bet_id, user) == <<bet_id, user>> \in DOMAIN entry_state

\* A function extended or overwritten at one key.
Put(f, k, v) == [x \in (DOMAIN f) \cup {k} |-> IF x = k THEN v ELSE f[x]]

\* The lamports paid out of the vault for one market, by kind of transfer.
NoTransfers == [platform_fee |-> 0, creator_fee |-> 0, payouts |-> 0]

\* What `last` records of an instruction.
Ran(op, signer, bet_id, is_yes, amount, res, paid) ==
    [op |-> op, signer |-> signer, bet_id |-> bet_id, is_yes |-> is_yes,
     amount |-> amount, res |-> res, paid |-> paid]

\* A fixed-deadline market whose end time has not passed / has not been
\* reached, as the handlers test it against the clock.
Ended(pool) == pool.end_timestamp < now
Open(pool) == pool.end_timestamp > now

Init ==
    /\ main_state = NoMainState
    /\ pool_state = << >>
    /\ history_state = << >>
    /\ entry_state = << >>
    /\ sol_vault = 0
    /\ transfers = << >>
    /\ now = 0
    /\ last = Ran("none", "", 0, FALSE, 0, "Ok", 0)

-----------------------------------------------------------------------------
(* init_main_state *)

init_main_state_result(owner) ==
    IF main_state.initialized THEN "AccountAlreadyInUse" ELSE "Ok"

init_main_state(owner) ==
    LET res == init_main_state_result(owner) IN
    /\ last' = Ran("init_main_state", owner, 0, FALSE, 0, res, 0)
    /\ IF res = "Ok"
       THEN /\ main_state' =
                  [initialized |-> TRUE, owner |-> owner,
                   scale_factor |-> SCALE_FACTOR,
                   initial_price |-> INITIAL_PRICE,
                   current_bet_id |-> 0,
                   creator_fee_percent |-> CREATOR_FEE_PERCENT,
                   platform_fee_percent |-> PLATFORM_FEE_PERCENT]
            /\ sol_vault' = sol_vault + RentMinimum
       ELSE UNCHANGED <<main_state, sol_vault>>
    /\ UNCHANGED <<pool_state, history_state, entry_state, transfers, now>>

-----------------------------------------------------------------------------
(* update_main_state *)

\* Fault injection: update_main_state without the address constraint on the
\* signer.
update_main_state_result_owner_unchecked(owner, input) ==
    IF ~main_state.initialized THEN "AccountNotInitialized"
    ELSE "Ok"

update_main_state_result(owner, input) ==
    IF ~main_state.initialized THEN "AccountNotInitialized"
    ELSE IF owner # main_state.owner THEN "Unauthorized"
    ELSE "Ok"

update_main_state(owner, input) ==
    LET res == update_main_state_result(owner, input) IN
    /\ last' = Ran("update_main_state", owner, 0, FALSE, 0, res, 0)
    /\ IF res = "Ok"
       THEN main_state' =
                [main_state EXCEPT
                    !.owner = input.owner,
                    !.initial_price = input.initial_price,
                    !.scale_factor = input.scale_factor,
                    !.creator_fee_percent = input.creator_fee_percent,
                    !.platform_fee_percent = input.platform_fee_percent]
       ELSE UNCHANGED main_state
    /\ UNCHANGED <<pool_state, history_state, entry_state, sol_vault,
                   transfers, now>>

-----------------------------------------------------------------------------
(* create_pool *)

create_pool_result(creator, input) ==
    IF ~main_state.initialized THEN "AccountNotInitialized"
    ELSE IF Len(input.title) > MAX_TITLE_LEN THEN "TitleTooLong"
    ELSE IF Len(input.description) > MAX_DESCRIPTION_LEN
         THEN "DescriptionTooLong"
    ELSE IF input.title = << >> THEN "TitleEmpty"
    ELSE IF input.description = << >> THEN "DescriptionEmpty"
    ELSE "Ok"

\* The PoolState create_pool writes.
create_pool_state(creator, input) ==
    [creator |-> creator,
     bet_id |-> main_state.current_bet_id,
     initial_price |-> main_state.initial_price,
     scale_factor |-> main_state.scale_factor,
     total_supply |-> 0, total_reserve |-> 0,
     yes_supply |-> 0, yes_reserve |-> 0,
     no_supply |-> 0, no_reserve |-> 0,
     title |-> input.title,
     description |-> input.description,
     end_timestamp |-> input.end_timestamp,
     created_timestamp |-> now,
     referee |-> input.referee,
     winner |-> "",
     complete |-> FALSE,
     creator_fee_claimed |-> FALSE,
     platform_fee_claimed |-> FALSE]

\* The PoolHistoryState create_pool writes.
create_pool_history(bet_id) ==
    [bet_id |-> bet_id,
     points |-> << [timestamp |-> now, yes_reserve |-> 0, no_reserve |-> 0] >>]

\* Fault injection: create_pool without the increment of current_bet_id.
create_pool_counter_unchanged(creator, input) ==
    LET res == create_pool_result(creator, input)
        id == main_state.current_bet_id
    IN
    /\ last' = Ran("create_pool", creator, id, FALSE, 0, res, 0)
    /\ IF res = "Ok"
       THEN /\ pool_state' = Put(pool_state, id, create_pool_state(creator, input))
            /\ history_state' = Put(history_state, id, create_pool_history(id))
            /\ transfers' = Put(transfers, id, NoTransfers)
       ELSE UNCHANGED <<pool_state, history_state, transfers>>
    /\ UNCHANGED <<main_state, entry_state, sol_vault, now>>

create_pool(creator, input) ==
    LET res == create_pool_result(creator, input)
        id == main_state.current_bet_id
    IN
    /\ last' = Ran("create_pool", creator, id, FALSE, 0, res, 0)
    /\ IF res = "Ok"
       THEN /\ pool_state' = Put(pool_state, id, create_pool_state(creator, input))
            /\ history_state' = Put(history_state, id, create_pool_history(id))
            /\ transfers' = Put(transfers, id, NoTransfers)
            /\ main_state' = [main_state EXCEPT !.current_bet_id = @ + 1]
       ELSE UNCHANGED <<pool_state, history_state, transfers, main_state>>
    /\ UNCHANGED <<entry_state, sol_vault, now>>

-----------------------------------------------------------------------------
(* update_pool *)

\* Fault injection: update_pool without the creator-or-owner check of lines
\* 19-22.
update_pool_result_unauthorized_unchecked(updater, input) ==
    IF ~main_state.initialized \/ ~PoolExists(input.bet_id)
    THEN "AccountNotInitialized"
    ELSE LET pool == pool_state[input.bet_id] IN
    IF pool.complete THEN "BetComplete"
    ELSE IF IsSome(input.title) /\ Len(Unwrap(input.title)) > MAX_TITLE_LEN
         THEN "TitleTooLong"
    ELSE IF IsSome(input.title) /\ Unwrap(input.title) = << >>
         THEN "TitleEmpty"
    ELSE IF /\ IsSome(input.description)
            /\ Len(Unwrap(input.description)) > MAX_DESCRIPTION_LEN
         THEN "DescriptionTooLong"
    ELSE IF IsSome(input.description) /\ Unwrap(input.description) = << >>
         THEN "DescriptionEmpty"
    ELSE "Ok"

\* Fault injection: update_pool without the completion check of lines 25-28.
update_pool_result_complete_unchecked(updater, input) ==
    IF ~main_state.initialized \/ ~PoolExists(input.bet_id)
    THEN "AccountNotInitialized"
    ELSE LET pool == pool_state[input.bet_id] IN
    IF ~(pool.creator = updater \/ main_state.owner = updater)
    THEN "Unauthorized"
    ELSE IF IsSome(input.title) /\ Len(Unwrap(input.title)) > MAX_TITLE_LEN
         THEN "TitleTooLong"
    ELSE IF IsSome(input.title) /\ Unwrap(input.title) = << >>
         THEN "TitleEmpty"
    ELSE IF /\ IsSome(input.description)
            /\ Len(Unwrap(input.description)) > MAX_DESCRIPTION_LEN
         THEN "DescriptionTooLong"
    ELSE IF IsSome(input.description) /\ Unwrap(input.description) = << >>
         THEN "DescriptionEmpty"
    ELSE "Ok"

update_pool_result(updater, input) ==
    IF ~main_state.initialized \/ ~PoolExists(input.bet_id)
    THEN "AccountNotInitialized"
    ELSE LET pool == pool_state[input.bet_id] IN
    IF ~(pool.creator = updater \/ main_state.owner = updater)
    THEN "Unauthorized"
    ELSE IF pool.complete THEN "BetComplete"
    ELSE IF IsSome(input.title) /\ Len(Unwrap(input.title)) > MAX_TITLE_LEN
         THEN "TitleTooLong"
    ELSE IF IsSome(input.title) /\ Unwrap(input.title) = << >>
         THEN "TitleEmpty"
    ELSE IF /\ IsSome(input.description)
            /\ Len(Unwrap(input.description)) > MAX_DESCRIPTION_LEN
         THEN "DescriptionTooLong"
    ELSE IF IsSome(input.description) /\ Unwrap(input.description) = << >>
         THEN "DescriptionEmpty"
    ELSE "Ok"

\* The PoolState update_pool leaves when every check passed.
update_pool_state(pool, input) ==
    [pool EXCEPT
        !.title = IF IsSome(input.title) THEN Unwrap(input.title) ELSE @,
        !.description =
            IF IsSome(input.description) THEN Unwrap(input.description) ELSE @,
        !.end_timestamp =
            IF IsSome(input.end_timestamp) THEN Unwrap(input.end_timestamp) ELSE @,
        !.referee = IF IsSome(input.referee) THEN Unwrap(input.referee) ELSE @]

update_pool(updater, input) ==
    LET res == update_pool_result(updater, input) IN
    /\ last' = Ran("update_pool", updater, input.bet_id, FALSE, 0, res, 0)
    /\ IF res = "Ok"
       THEN pool_state' =
                [pool_state EXCEPT
                    ![input.bet_id] = update_pool_state(@, input)]
       ELSE UNCHANGED pool_state
    /\ UNCHANGED <<main_state, history_state, entry_state, sol_vault,
                   transfers, now>>

-----------------------------------------------------------------------------
(* create_entry *)

\* Fault injection: create_entry without the completion check of line 15.
create_entry_result_not_complete_unchecked(user, bet_id) ==
    IF ~main_state.initialized \/ ~PoolExists(bet_id)
    THEN "AccountNotInitialized"
    ELSE LET pool == pool_state[bet_id] IN
    IF pool.end_timestamp >= 0 /\ ~Open(pool) THEN "BetEnded"
    ELSE "Ok"

create_entry_result(user, bet_id) ==
    IF ~main_state.initialized \/ ~PoolExists(bet_id)
    THEN "AccountNotInitialized"
    ELSE LET pool == pool_state[bet_id] IN
    IF pool.complete THEN "BetComplete"
    ELSE IF pool.end_timestamp >= 0 /\ ~Open(pool) THEN "BetEnded"
    ELSE "Ok"

\* The EntryState create_entry writes, whether init_if_needed created the
\* account in this call or found it already there.
create_entry_state(user, bet_id) ==
    [user |-> user, bet_id |-> bet_id, deposited_sol_amount |-> 0,
     token_balance |-> 0, is_yes |-> TRUE, is_claimed |-> FALSE]

create_entry(user, bet_id) ==
    LET res == create_entry_result(user, bet_id) IN
    /\ last' = Ran("create_entry", user, bet_id, FALSE, 0, res, 0)
    /\ IF res = "Ok"
       THEN entry_state' =
                Put(entry_state, <<bet_id, user>>, create_entry_state(user, bet_id))
       ELSE UNCHANGED entry_state
    /\ UNCHANGED <<main_state, pool_state, history_state, sol_vault,
                   transfers, now>>

-----------------------------------------------------------------------------
(* deposit *)

\* Fault injection: a pricing helper that counts the deposit in the reserve of
\* its side before it takes the price.
calculate_token_amount_and_prices_after_deposit(deposit_amount, is_yes, yes_reserve, no_reserve) ==
    LET virtual_yes == yes_reserve + VIRTUAL_AMOUNT
                           + (IF is_yes THEN deposit_amount ELSE 0)
        virtual_no == no_reserve + VIRTUAL_AMOUNT
                          + (IF is_yes THEN 0 ELSE deposit_amount)
        denom == virtual_yes + virtual_no
        yes_price == MulDiv(virtual_yes, SCALE, denom)
        no_price == MulDiv(virtual_no, SCALE, denom)
        selected_price == IF is_yes THEN yes_price ELSE no_price
        token_amount == MulDiv(deposit_amount, SCALE, selected_price)
    IN  <<token_amount, yes_price, no_price>>

\* Fault injection: a pricing helper that sells at the price of the other
\* side.
calculate_token_amount_and_prices_other_price(deposit_amount, is_yes, yes_reserve, no_reserve) ==
    LET virtual_yes == yes_reserve + VIRTUAL_AMOUNT
        virtual_no == no_reserve + VIRTUAL_AMOUNT
        denom == virtual_yes + virtual_no
        yes_price == MulDiv(virtual_yes, SCALE, denom)
        no_price == MulDiv(virtual_no, SCALE, denom)
        selected_price == IF is_yes THEN no_price ELSE yes_price
        token_amount == MulDiv(deposit_amount, SCALE, selected_price)
    IN  <<token_amount, yes_price, no_price>>

\* <<token_amount, yes_price, no_price>> of the pricing helper.
calculate_token_amount_and_prices(deposit_amount, is_yes, yes_reserve, no_reserve) ==
    LET virtual_yes == yes_reserve + VIRTUAL_AMOUNT
        virtual_no == no_reserve + VIRTUAL_AMOUNT
        denom == virtual_yes + virtual_no
        yes_price == MulDiv(virtual_yes, SCALE, denom)
        no_price == MulDiv(virtual_no, SCALE, denom)
        selected_price == IF is_yes THEN yes_price ELSE no_price
        token_amount == MulDiv(deposit_amount, SCALE, selected_price)
    IN  <<token_amount, yes_price, no_price>>

\* Fault injection: a deposit that compares the clock with end_timestamp
\* whatever its sign.
deposit_result_sign_unchecked(user, input) ==
    IF ~PoolExists(input.bet_id) \/ ~EntryExists(input.bet_id, user)
    THEN "AccountNotInitialized"
    ELSE LET pool == pool_state[input.bet_id]
             entry == entry_state[<<input.bet_id, user>>]
         IN
    IF pool.complete THEN "BetComplete"
    ELSE IF ~Open(pool) THEN "BetEnded"
    ELSE IF ~(input.amount > 0) THEN "InvalidBet"
    ELSE IF ~(entry.token_balance = 0 \/ entry.is_yes = input.is_yes)
         THEN "InvalidBet"
    ELSE "Ok"

deposit_result(user, input) ==
    IF ~PoolExists(input.bet_id) \/ ~EntryExists(input.bet_id, user)
    THEN "AccountNotInitialized"
    ELSE LET pool == pool_state[input.bet_id]
             entry == entry_state[<<input.bet_id, user>>]
         IN
    IF pool.complete THEN "BetComplete"
    ELSE IF pool.end_timestamp >= 0 /\ ~Open(pool) THEN "BetEnded"
    ELSE IF ~(input.amount > 0) THEN "InvalidBet"
    ELSE IF ~(entry.token_balance = 0 \/ entry.is_yes = input.is_yes)
         THEN "InvalidBet"
    ELSE "Ok"

\* Fault injection: a deposit that credits the chosen side's supply and reserve
\* but not total_supply and total_reserve.
deposit_pool_state_totals_stale(pool, input, token_amount) ==
    IF input.is_yes
    THEN [pool EXCEPT
            !.yes_supply = pool.yes_supply + token_amount,
            !.yes_reserve = pool.yes_reserve + input.amount]
    ELSE [pool EXCEPT
            !.no_supply = pool.no_supply + token_amount,
            !.no_reserve = pool.no_reserve + input.amount]

\* The PoolState deposit leaves.
deposit_pool_state(pool, input, token_amount) ==
    IF input.is_yes
    THEN [pool EXCEPT
            !.total_supply = pool.total_supply + token_amount,
            !.total_reserve = pool.total_reserve + input.amount,
            !.yes_supply = pool.yes_supply + token_amount,
            !.yes_reserve = pool.yes_reserve + input.amount]
    ELSE [pool EXCEPT
            !.total_supply = pool.total_supply + token_amount,
            !.total_reserve = pool.total_reserve + input.amount,
            !.no_supply = pool.no_supply + token_amount,
            !.no_reserve = pool.no_reserve + input.amount]

\* The EntryState deposit leaves.
deposit_entry_state(entry, input, token_amount) ==
    [entry EXCEPT
        !.deposited_sol_amount = entry.deposited_sol_amount + input.amount,
        !.token_balance = entry.token_balance + token_amount,
        !.is_yes = input.is_yes]

\* Fault injection: a deposit that appends its point and never drains the
\* oldest.
deposit_history_state_undrained(history, pool) ==
    LET zero == [timestamp |-> now, yes_reserve |-> 0, no_reserve |-> 0]
        seeded == IF history.bet_id = 0 /\ history.points = << >>
                  THEN <<zero>>
                  ELSE history.points
        point == [timestamp |-> now,
                  yes_reserve |-> pool.yes_reserve,
                  no_reserve |-> pool.no_reserve]
    IN  [bet_id |-> IF history.bet_id = 0 THEN pool.bet_id ELSE history.bet_id,
         points |-> Append(seeded, point)]

\* Fault injection: a deposit that, on a full history, evicts the newest point
\* and keeps the oldest.
deposit_history_state_newest_evicted(history, pool) ==
    LET zero == [timestamp |-> now, yes_reserve |-> 0, no_reserve |-> 0]
        seeded == IF history.bet_id = 0 /\ history.points = << >>
                  THEN <<zero>>
                  ELSE history.points
        point == [timestamp |-> now,
                  yes_reserve |-> pool.yes_reserve,
                  no_reserve |-> pool.no_reserve]
        pushed == Append(seeded, point)
    IN  [bet_id |-> IF history.bet_id = 0 THEN pool.bet_id ELSE history.bet_id,
         points |-> IF Len(pushed) > MAX_POINTS
                    THEN SubSeq(pushed, 1, MAX_POINTS)
                    ELSE pushed]

\* Fault injection: a deposit that appends the reserves of the point before
\* instead of the reserves it left.
deposit_history_state_point_stale(history, pool) ==
    LET zero == [timestamp |-> now, yes_reserve |-> 0, no_reserve |-> 0]
        seeded == IF history.bet_id = 0 /\ history.points = << >>
                  THEN <<zero>>
                  ELSE history.points
        point == [seeded[Len(seeded)] EXCEPT !.timestamp = now]
        pushed == Append(seeded, point)
        overflow == Len(pushed) - MAX_POINTS
    IN  [bet_id |-> IF history.bet_id = 0 THEN pool.bet_id ELSE history.bet_id,
         points |-> IF Len(pushed) > MAX_POINTS
                    THEN SubSeq(pushed, overflow + 1, Len(pushed))
                    ELSE pushed]

\* The PoolHistoryState deposit leaves, given the PoolState it left.
deposit_history_state(history, pool) ==
    LET zero == [timestamp |-> now, yes_reserve |-> 0, no_reserve |-> 0]
        seeded == IF history.bet_id = 0 /\ history.points = << >>
                  THEN <<zero>>
                  ELSE history.points
        point == [timestamp |-> now,
                  yes_reserve |-> pool.yes_reserve,
                  no_reserve |-> pool.no_reserve]
        pushed == Append(seeded, point)
        overflow == Len(pushed) - MAX_POINTS
    IN  [bet_id |-> IF history.bet_id = 0 THEN pool.bet_id ELSE history.bet_id,
         points |-> IF Len(pushed) > MAX_POINTS
                    THEN SubSeq(pushed, overflow + 1, Len(pushed))
                    ELSE pushed]

deposit(user, input) ==
    LET res == deposit_result(user, input) IN
    /\ last' = Ran("deposit", user, input.bet_id, input.is_yes, input.amount, res, 0)
    /\ IF res = "Ok"
       THEN LET pool == pool_state[input.bet_id]
                key == <<input.bet_id, user>>
                token_amount ==
                    calculate_token_amount_and_prices(
                        input.amount, input.is_yes,
                        pool.yes_reserve, pool.no_reserve)[1]
                new_pool == deposit_pool_state(pool, input, token_amount)
            IN  /\ pool_state' = [pool_state EXCEPT ![input.bet_id] = new_pool]
                /\ entry_state' =
                     [entry_state EXCEPT
                        ![key] = deposit_entry_state(entry_state[key], input, token_amount)]
                /\ sol_vault' = sol_vault + input.amount
                /\ history_state' =
                     [history_state EXCEPT
                        ![input.bet_id] =
                            deposit_history_state(history_state[input.bet_id], new_pool)]
       ELSE UNCHANGED <<pool_state, entry_state, sol_vault, history_state>>
    /\ UNCHANGED <<main_state, transfers, now>>

-----------------------------------------------------------------------------
(* set_winner *)

\* total_reserve * percent / 10000 of set_winner and claim_creator_fee.
fee_of(pool, percent) ==
    MulDiv(pool.yes_reserve + pool.no_reserve, percent, BPS_DENOMINATOR)

set_winner_platform_fee(pool) == fee_of(pool, main_state.platform_fee_percent)

\* Fault injection: set_winner without the referee-or-owner check of lines
\* 16-20.
set_winner_result_unauthorized_unchecked(referee, input) ==
    IF ~main_state.initialized \/ ~PoolExists(input.bet_id)
    THEN "AccountNotInitialized"
    ELSE LET pool == pool_state[input.bet_id] IN
    IF pool.complete THEN "BetComplete"
    ELSE IF pool.end_timestamp >= 0 /\ ~Ended(pool) THEN "BetNotEnded"
    ELSE IF /\ set_winner_platform_fee(pool) > 0
            /\ set_winner_platform_fee(pool) > sol_vault
         THEN "InsufficientFunds"
    ELSE "Ok"

\* Fault injection: set_winner without the completion check of line 15.
set_winner_result_complete_unchecked(referee, input) ==
    IF ~main_state.initialized \/ ~PoolExists(input.bet_id)
    THEN "AccountNotInitialized"
    ELSE LET pool == pool_state[input.bet_id] IN
    IF ~(pool.referee = referee \/ main_state.owner = referee)
    THEN "Unauthorized"
    ELSE IF pool.end_timestamp >= 0 /\ ~Ended(pool) THEN "BetNotEnded"
    ELSE IF /\ set_winner_platform_fee(pool) > 0
            /\ set_winner_platform_fee(pool) > sol_vault
         THEN "InsufficientFunds"
    ELSE "Ok"

set_winner_result(referee, input) ==
    IF ~main_state.initialized \/ ~PoolExists(input.bet_id)
    THEN "AccountNotInitialized"
    ELSE LET pool == pool_state[input.bet_id] IN
    IF pool.complete THEN "BetComplete"
    ELSE IF ~(pool.referee = referee \/ main_state.owner = referee)
         THEN "Unauthorized"
    ELSE IF pool.end_timestamp >= 0 /\ ~Ended(pool) THEN "BetNotEnded"
    ELSE IF /\ set_winner_platform_fee(pool) > 0
            /\ set_winner_platform_fee(pool) > sol_vault
         THEN "InsufficientFunds"
    ELSE "Ok"

\* The PoolState set_winner leaves.
set_winner_pool_state(pool, input) ==
    [pool EXCEPT
        !.complete = TRUE,
        !.winner = IF input.is_yes THEN "yes" ELSE "no",
        !.platform_fee_claimed = TRUE]

set_winner(referee, input) ==
    LET res == set_winner_result(referee, input)
        paid == IF res = "Ok"
                THEN set_winner_platform_fee(pool_state[input.bet_id]) ELSE 0
    IN
    /\ last' = Ran("set_winner", referee, input.bet_id, input.is_yes, 0, res, paid)
    /\ IF res = "Ok"
       THEN /\ pool_state' =
                 [pool_state EXCEPT
                    ![input.bet_id] = set_winner_pool_state(@, input)]
            /\ sol_vault' = sol_vault - paid
            /\ transfers' =
                 [transfers EXCEPT ![input.bet_id].platform_fee = @ + paid]
       ELSE UNCHANGED <<pool_state, sol_vault, transfers>>
    /\ UNCHANGED <<main_state, history_state, entry_state, now>>

-----------------------------------------------------------------------------
(* claim *)

\* Fault injection: a claim that charges the two fees to the winner's principal
\* when the losing reserve does not cover them.
claim_amount_fees_on_principal(pool, entry) ==
    LET winner == pool.winner = "yes"
        winning_supply == IF winner THEN pool.yes_supply ELSE pool.no_supply
        winning_reserve == IF winner THEN pool.yes_reserve ELSE pool.no_reserve
        losing_reserve == IF winner THEN pool.no_reserve ELSE pool.yes_reserve
        fees == MulDiv(pool.yes_reserve + pool.no_reserve,
                       main_state.creator_fee_percent
                           + main_state.platform_fee_percent, 10000)
        distributable == SatSub(winning_reserve + losing_reserve, fees)
    IN  MulDiv(entry.token_balance, distributable, winning_supply)

\* claimable_amount: the principal plus the share of the post-fee losing
\* reserve.
claim_amount(pool, entry) ==
    LET winner == pool.winner = "yes"
        yes_reserve == pool.yes_reserve
        no_reserve == pool.no_reserve
        winning_supply == IF winner THEN pool.yes_supply ELSE pool.no_supply
        user_tokens == entry.token_balance
        total_reserve == yes_reserve + no_reserve
        creator_fee == fee_of(pool, main_state.creator_fee_percent)
        platform_fee == fee_of(pool, main_state.platform_fee_percent)
        winning_reserve == IF winner THEN yes_reserve ELSE no_reserve
        available_profit ==
            SatSub(SatSub(SatSub(total_reserve, winning_reserve), creator_fee),
                   platform_fee)
        profit_share == IF available_profit > 0
                        THEN MulDiv(user_tokens, available_profit, winning_supply)
                        ELSE 0
    IN  entry.deposited_sol_amount + profit_share

\* Fault injection: claim without the is_claimed check of lines 18-21.
claim_result_claimed_unchecked(user, bet_id) ==
    IF ~main_state.initialized \/ ~PoolExists(bet_id) \/ ~EntryExists(bet_id, user)
    THEN "AccountNotInitialized"
    ELSE LET pool == pool_state[bet_id]
             entry == entry_state[<<bet_id, user>>]
             winner == pool.winner = "yes"
             winning_supply == IF winner THEN pool.yes_supply ELSE pool.no_supply
         IN
    IF pool.end_timestamp >= 0 /\ ~Ended(pool) THEN "BetNotEnded"
    ELSE IF ~pool.complete THEN "BetNotComplete"
    ELSE IF entry.is_yes # winner THEN "WrongBet"
    ELSE IF ~(winning_supply > 0) THEN "MathOverflow"
    ELSE IF ~(entry.token_balance > 0) THEN "WrongBet"
    ELSE IF claim_amount(pool, entry) > sol_vault THEN "InsufficientFunds"
    ELSE "Ok"

\* Fault injection: claim without the side check of line 31.
claim_result_side_unchecked(user, bet_id) ==
    IF ~main_state.initialized \/ ~PoolExists(bet_id) \/ ~EntryExists(bet_id, user)
    THEN "AccountNotInitialized"
    ELSE LET pool == pool_state[bet_id]
             entry == entry_state[<<bet_id, user>>]
             winner == pool.winner = "yes"
             winning_supply == IF winner THEN pool.yes_supply ELSE pool.no_supply
         IN
    IF entry.is_claimed THEN "AlreadyClaimed"
    ELSE IF pool.end_timestamp >= 0 /\ ~Ended(pool) THEN "BetNotEnded"
    ELSE IF ~pool.complete THEN "BetNotComplete"
    ELSE IF ~(winning_supply > 0) THEN "MathOverflow"
    ELSE IF ~(entry.token_balance > 0) THEN "WrongBet"
    ELSE IF claim_amount(pool, entry) > sol_vault THEN "InsufficientFunds"
    ELSE "Ok"

\* Fault injection: claim without the token_balance check of line 63.
claim_result_tokens_unchecked(user, bet_id) ==
    IF ~main_state.initialized \/ ~PoolExists(bet_id) \/ ~EntryExists(bet_id, user)
    THEN "AccountNotInitialized"
    ELSE LET pool == pool_state[bet_id]
             entry == entry_state[<<bet_id, user>>]
             winner == pool.winner = "yes"
             winning_supply == IF winner THEN pool.yes_supply ELSE pool.no_supply
         IN
    IF entry.is_claimed THEN "AlreadyClaimed"
    ELSE IF pool.end_timestamp >= 0 /\ ~Ended(pool) THEN "BetNotEnded"
    ELSE IF ~pool.complete THEN "BetNotComplete"
    ELSE IF entry.is_yes # winner THEN "WrongBet"
    ELSE IF ~(winning_supply > 0) THEN "MathOverflow"
    ELSE IF claim_amount(pool, entry) > sol_vault THEN "InsufficientFunds"
    ELSE "Ok"

claim_result(user, bet_id) ==
    IF ~main_state.initialized \/ ~PoolExists(bet_id) \/ ~EntryExists(bet_id, user)
    THEN "AccountNotInitialized"
    ELSE LET pool == pool_state[bet_id]
             entry == entry_state[<<bet_id, user>>]
             winner == pool.winner = "yes"
             winning_supply == IF winner THEN pool.yes_supply ELSE pool.no_supply
         IN
    IF entry.is_claimed THEN "AlreadyClaimed"
    ELSE IF pool.end_timestamp >= 0 /\ ~Ended(pool) THEN "BetNotEnded"
    ELSE IF ~pool.complete THEN "BetNotComplete"
    ELSE IF entry.is_yes # winner THEN "WrongBet"
    ELSE IF ~(winning_supply > 0) THEN "MathOverflow"
    ELSE IF ~(entry.token_balance > 0) THEN "WrongBet"
    ELSE IF claim_amount(pool, entry) > sol_vault THEN "InsufficientFunds"
    ELSE "Ok"

\* Fault injection: a ledger that keeps the write of line 33 (is_claimed =
\* true) when the claim fails at a later line.
claim_flag_kept_on_error(user, bet_id) ==
    LET res == claim_result(user, bet_id)
        key == <<bet_id, user>>
        paid == IF res = "Ok"
                THEN claim_amount(pool_state[bet_id], entry_state[key]) ELSE 0
        flagged ==
            /\ res # "AccountNotInitialized"
            /\ ~entry_state[key].is_claimed
            /\ pool_state[bet_id].end_timestamp >= 0 => Ended(pool_state[bet_id])
            /\ pool_state[bet_id].complete
            /\ entry_state[key].is_yes = (pool_state[bet_id].winner = "yes")
    IN
    /\ last' = Ran("claim", user, bet_id, FALSE, 0, res, paid)
    /\ IF flagged
       THEN entry_state' = [entry_state EXCEPT ![key].is_claimed = TRUE]
       ELSE UNCHANGED entry_state
    /\ IF res = "Ok"
       THEN /\ sol_vault' = sol_vault - paid
            /\ transfers' = [transfers EXCEPT ![bet_id].payouts = @ + paid]
       ELSE UNCHANGED <<sol_vault, transfers>>
    /\ UNCHANGED <<main_state, pool_state, history_state, now>>

claim(user, bet_id) ==
    LET res == claim_result(user, bet_id)
        key == <<bet_id, user>>
        paid == IF res = "Ok"
                THEN claim_amount(pool_state[bet_id], entry_state[key]) ELSE 0
    IN
    /\ last' = Ran("claim", user, bet_id, FALSE, 0, res, paid)
    /\ IF res = "Ok"
       THEN /\ entry_state' = [entry_state EXCEPT ![key].is_claimed = TRUE]
            /\ sol_vault' = sol_vault - paid
            /\ transfers' = [transfers EXCEPT ![bet_id].payouts = @ + paid]
       ELSE UNCHANGED <<entry_state, sol_vault, transfers>>
    /\ UNCHANGED <<main_state, pool_state, history_state, now>>

-----------------------------------------------------------------------------
(* claim_creator_fee *)

claim_creator_fee_amount(pool) == fee_of(pool, main_state.creator_fee_percent)

claim_creator_fee_result(creator, bet_id) ==
    IF ~main_state.initialized \/ ~PoolExists(bet_id)
    THEN "AccountNotInitialized"
    ELSE LET pool == pool_state[bet_id] IN
    IF pool.creator # creator THEN "ConstraintHasOne"
    ELSE IF pool.creator_fee_claimed THEN "AlreadyClaimed"
    ELSE IF pool.end_timestamp >= 0 /\ ~Ended(pool) THEN "BetNotEnded"
    ELSE IF ~pool.complete THEN "BetNotComplete"
    ELSE IF /\ claim_creator_fee_amount(pool) > 0
            /\ claim_creator_fee_amount(pool) > sol_vault
         THEN "InsufficientFunds"
    ELSE "Ok"

claim_creator_fee(creator, bet_id) ==
    LET res == claim_creator_fee_result(creator, bet_id)
        paid == IF res = "Ok"
                THEN claim_creator_fee_amount(pool_state[bet_id]) ELSE 0
    IN
    /\ last' = Ran("claim_creator_fee", creator, bet_id, FALSE, 0, res, paid)
    /\ IF res = "Ok"
       THEN /\ pool_state' =
                 [pool_state EXCEPT ![bet_id].creator_fee_claimed = TRUE]
            /\ sol_vault' = sol_vault - paid
            /\ transfers' = [transfers EXCEPT ![bet_id].creator_fee = @ + paid]
       ELSE UNCHANGED <<pool_state, sol_vault, transfers>>
    /\ UNCHANGED <<main_state, history_state, entry_state, now>>

-----------------------------------------------------------------------------
(* The clock: unix seconds that never go backwards. *)

tick ==
    /\ now' = now + 1
    /\ last' = Ran("tick", "", 0, FALSE, 0, "Ok", 0)
    /\ UNCHANGED <<main_state, pool_state, history_state, entry_state,
                   sol_vault, transfers>>

-----------------------------------------------------------------------------
(* The instructions the ledger may run, with their inputs. *)

\* Bounds of the runs: seconds the clock advances, deposits a market accepts.
MaxTime == 2
MaxDeposits == 2

\* The markets of the runs: the first bet_id the registry hands out.
BetIds == {0}

\* The users who bet.
Bettors == {"k2", "k3"}

\* Deposit amounts in lamports: an amount that moves the price, and whose
\* creator and platform fees together equal the rent minimum the vault starts
\* with.
Amounts == {29696000}

\* Deadlines: one second after the clock's start.
Deadlines == {1}

UpdateMainStateInputs ==
    {[owner |-> o, initial_price |-> INITIAL_PRICE, scale_factor |-> SCALE_FACTOR,
      creator_fee_percent |-> CREATOR_FEE_PERCENT,
      platform_fee_percent |-> PLATFORM_FEE_PERCENT] : o \in {"k1"}}

\* create_pool inputs: a valid market, a title too long, a description too long.
CreatePoolInputs ==
    {[title |-> Str(t[1]), description |-> Str(t[2]), end_timestamp |-> e,
      referee |-> r] :
        t \in {<<1, 1>>, <<MAX_TITLE_LEN + 1, 1>>, <<1, MAX_DESCRIPTION_LEN + 1>>},
        e \in Deadlines,
        r \in {"k3"}}

\* update_pool inputs: nothing to change, or one field to change.
UpdatePoolInputs ==
    UNION {
        LET none == [bet_id |-> b, title |-> None, description |-> None,
                     end_timestamp |-> None, referee |-> None]
        IN  {none,
             [none EXCEPT !.title = Some(Str(MAX_TITLE_LEN + 1))],
             [none EXCEPT !.description = Some(Str(MAX_DESCRIPTION_LEN + 1))],
             [none EXCEPT !.referee = Some("k2")]}
            \cup {[none EXCEPT !.end_timestamp = Some(e)] : e \in Deadlines}
        : b \in BetIds}

DepositInputs ==
    {[bet_id |-> b, is_yes |-> y, amount |-> a] :
        b \in BetIds, y \in BOOLEAN, a \in Amounts}

SetWinnerInputs == {[bet_id |-> b, is_yes |-> y] : b \in BetIds, y \in BOOLEAN}

InitMainState == \E owner \in {"k1"} : init_main_state(owner)

UpdateMainState ==
    \E owner \in {"k1", "k2"}, input \in UpdateMainStateInputs :
        update_main_state(owner, input)

CreatePool ==
    /\ main_state.current_bet_id \in BetIds
    /\ \E creator \in {"k2"}, input \in CreatePoolInputs :
            create_pool(creator, input)

UpdatePool ==
    \E updater \in {"k2", "k3"}, input \in UpdatePoolInputs : update_pool(updater, input)

CreateEntry == \E user \in Bettors, bet_id \in BetIds : create_entry(user, bet_id)

Deposit ==
    \E user \in Bettors, input \in DepositInputs :
        /\ PoolExists(input.bet_id) =>
               Len(history_state[input.bet_id].points) <= MaxDeposits
        /\ deposit(user, input)

SetWinner ==
    \E referee \in {"k2", "k3"}, input \in SetWinnerInputs : set_winner(referee, input)

Claim == \E user \in Bettors, bet_id \in BetIds : claim(user, bet_id)

ClaimCreatorFee ==
    \E creator \in {"k2", "k3"}, bet_id \in BetIds : claim_creator_fee(creator, bet_id)

Tick == now < MaxTime /\ tick

Next ==
    \/ InitMainState
    \/ UpdateMainState
    \/ CreatePool
    \/ UpdatePool
    \/ CreateEntry
    \/ Deposit
    \/ SetWinner
    \/ Claim
    \/ ClaimCreatorFee
    \/ Tick

Spec == Init /\ [][Next]_vars

-----------------------------------------------------------------------------
(* The same instructions on an open-ended market (end_timestamp < 0).  No  *)
(* handler compares the clock with the end time of such a market, so the   *)
(* clock stays where it started; only the completion checks stand between  *)
(* a resolved market and a later create_entry or deposit.                  *)

OpenPoolInputs ==
    {[title |-> Str(1), description |-> Str(1), end_timestamp |-> -1,
      referee |-> "k3"]}

UpdatePoolOpenInputs == {input \in UpdatePoolInputs : input.end_timestamp = None}

CreatePoolOpen ==
    /\ main_state.current_bet_id \in BetIds
    /\ \E creator \in {"k2"}, input \in OpenPoolInputs :
            create_pool(creator, input)

UpdatePoolOpen ==
    \E updater \in {"k2", "k3"}, input \in UpdatePoolOpenInputs :
        update_pool(updater, input)

NextOpen ==
    \/ InitMainState
    \/ UpdateMainState
    \/ CreatePoolOpen
    \/ UpdatePoolOpen
    \/ CreateEntry
    \/ Deposit
    \/ SetWinner
    \/ Claim
    \/ ClaimCreatorFee

SpecOpen == Init /\ [][NextOpen]_vars

-----------------------------------------------------------------------------
(* Properties. *)

\* The entries of a market, and what their users deposited in total.
EntriesOf(bet_id) == {k \in DOMAIN entry_state : k[1] = bet_id}

RECURSIVE SumDeposited(_)
SumDeposited(keys) ==
    IF keys = {} THEN 0
    ELSE LET k == CHOOSE x \in keys : TRUE
         IN  entry_state[k].deposited_sol_amount + SumDeposited(keys \ {k})

\* The lamports the vault has paid out for a market.
PaidOut(bet_id) ==
    transfers[bet_id].platform_fee + transfers[bet_id].creator_fee
        + transfers[bet_id].payouts

\* `last` is the instruction op, for the market bet_id, signed by signer.
LastIs(op, signer, bet_id) ==
    last.op = op /\ last.signer = signer /\ last.bet_id = bet_id

\* C1: for every market, the platform fee, the creator fee and the winner
\* payouts the vault has transferred for it sum to at most its total_reserve.
C1_PaidOutWithinReserve ==
    \A b \in DOMAIN pool_state : PaidOut(b) <= pool_state[b].total_reserve

\* The market of scenario S5: two users hold yes deposits and nobody bet no,
\* the market resolved yes under fees of 1% and 2%, and the vault holds the
\* rent minimum plus this market's deposits, less the platform fee and the
\* payouts already transferred.
PrincipalFloorScenario(b) ==
    /\ main_state.creator_fee_percent = CREATOR_FEE_PERCENT
    /\ main_state.platform_fee_percent = PLATFORM_FEE_PERCENT
    /\ pool_state[b].complete /\ pool_state[b].winner = "yes"
    /\ pool_state[b].no_reserve = 0
    /\ EntriesOf(b) = {<<b, u>> : u \in Bettors}
    /\ \A k \in EntriesOf(b) :
            /\ entry_state[k].is_yes
            /\ entry_state[k].deposited_sol_amount > 0
            /\ entry_state[k].token_balance > 0
    /\ SumDeposited(EntriesOf(b)) = pool_state[b].total_reserve
    /\ transfers[b].creator_fee = 0
    /\ sol_vault = RentMinimum + pool_state[b].total_reserve - PaidOut(b)

\* C2: in scenario S5 the claim of each of the two yes depositors succeeds,
\* whichever of them claims first, and pays at least the deposited principal.
C2_BothWinnersRecoverPrincipal ==
    \A b \in DOMAIN pool_state :
        PrincipalFloorScenario(b) =>
            \A k \in EntriesOf(b) :
                ~entry_state[k].is_claimed =>
                    /\ claim_result(k[2], b) = "Ok"
                    /\ claim_amount(pool_state[b], entry_state[k])
                           >= entry_state[k].deposited_sol_amount

\* C3: every market's total_reserve is the sum of deposited_sol_amount over
\* its entries.
C3_ReserveIsSumOfDeposits ==
    \A b \in DOMAIN pool_state :
        pool_state[b].total_reserve = SumDeposited(EntriesOf(b))

\* C4: a successful create_entry on an entry that already exists leaves its
\* deposited_sol_amount, token_balance, is_yes and is_claimed unchanged.
C4_OpenEntryIdempotent ==
    [][\A k \in DOMAIN entry_state :
          (/\ last'.op = "create_entry" /\ last'.res = "Ok"
           /\ last'.signer = k[2] /\ last'.bet_id = k[1])
          => /\ entry_state'[k].deposited_sol_amount
                    = entry_state[k].deposited_sol_amount
             /\ entry_state'[k].token_balance = entry_state[k].token_balance
             /\ entry_state'[k].is_yes = entry_state[k].is_yes
             /\ entry_state'[k].is_claimed = entry_state[k].is_claimed]_vars

\* C5: every market has yes_supply + no_supply = total_supply and
\* yes_reserve + no_reserve = total_reserve.
C5_SidesSumToTotals ==
    \A b \in DOMAIN pool_state :
        /\ pool_state[b].yes_supply + pool_state[b].no_supply
               = pool_state[b].total_supply
        /\ pool_state[b].yes_reserve + pool_state[b].no_reserve
               = pool_state[b].total_reserve

\* A deposit has just landed on a market that holds deposits on both sides.
C5_DepositsOnBothSides ==
    /\ last.op = "deposit" /\ last.res = "Ok"
    /\ PoolExists(last.bet_id)
    /\ pool_state[last.bet_id].yes_reserve > 0
    /\ pool_state[last.bet_id].no_reserve > 0

\* The market takes deposits: it is not resolved and, if it has a deadline,
\* the deadline lies ahead.
TakesDeposits(pool) ==
    ~pool.complete /\ (pool.end_timestamp >= 0 => Open(pool))

\* C6: an entry holding tokens keeps its is_yes through every step, and a
\* deposit on its other side fails and changes nothing (with InvalidBet when
\* the market takes deposits).
C6_SideFixedWhileHoldingTokens ==
    [][\A k \in DOMAIN entry_state :
          entry_state[k].token_balance > 0 =>
              /\ entry_state'[k].is_yes = entry_state[k].is_yes
              /\ (/\ last'.op = "deposit"
                  /\ last'.signer = k[2] /\ last'.bet_id = k[1]
                  /\ last'.is_yes # entry_state[k].is_yes)
                 => /\ last'.res # "Ok"
                    /\ TakesDeposits(pool_state[k[1]]) => last'.res = "InvalidBet"
                    /\ UNCHANGED <<main_state, pool_state, history_state,
                                   entry_state, sol_vault, transfers>>]_vars

\* C7: a resolved market stays resolved with the winner, reserves and supplies
\* it had, whatever instruction runs, and a further set_winner on it fails
\* with BetComplete.
C7_ResolutionTerminal ==
    [][\A b \in DOMAIN pool_state :
          pool_state[b].complete =>
              /\ pool_state'[b].complete
              /\ pool_state'[b].winner = pool_state[b].winner
              /\ pool_state'[b].yes_reserve = pool_state[b].yes_reserve
              /\ pool_state'[b].no_reserve = pool_state[b].no_reserve
              /\ pool_state'[b].total_reserve = pool_state[b].total_reserve
              /\ pool_state'[b].yes_supply = pool_state[b].yes_supply
              /\ pool_state'[b].no_supply = pool_state[b].no_supply
              /\ pool_state'[b].total_supply = pool_state[b].total_supply
              /\ (last'.op = "set_winner" /\ last'.bet_id = b)
                 => last'.res = "BetComplete"]_vars

\* A second set_winner has just been refused on a resolved market that holds
\* deposits.
C7_SecondResolveRefused ==
    /\ last.op = "set_winner" /\ last.res = "BetComplete"
    /\ PoolExists(last.bet_id)
    /\ pool_state[last.bet_id].complete
    /\ pool_state[last.bet_id].total_reserve > 0

\* C8: is_claimed of an entry, and creator_fee_claimed and platform_fee_claimed
\* of a market, once true are true after every step.
C8_ClaimFlagsMonotone ==
    [][/\ \A k \in DOMAIN entry_state :
              entry_state[k].is_claimed => entry_state'[k].is_claimed
       /\ \A b \in DOMAIN pool_state :
              /\ pool_state[b].creator_fee_claimed
                     => pool_state'[b].creator_fee_claimed
              /\ pool_state[b].platform_fee_claimed
                     => pool_state'[b].platform_fee_claimed]_vars

\* The user of a claimed entry has just called create_entry on it again, in a
\* market whose two fees are claimed too.
C8_OpenEntryOnClaimedEntry ==
    /\ last.op = "create_entry" /\ last.res = "BetComplete"
    /\ EntryExists(last.bet_id, last.signer)
    /\ entry_state[<<last.bet_id, last.signer>>].is_claimed
    /\ pool_state[last.bet_id].creator_fee_claimed
    /\ pool_state[last.bet_id].platform_fee_claimed

\* C9: a claim on an entry already claimed fails with AlreadyClaimed, pays
\* nothing and leaves the vault balance as it was; a claim that succeeds marks
\* the entry claimed.
C9_EntryPaidAtMostOnce ==
    [][\A k \in DOMAIN entry_state :
          (last'.op = "claim" /\ last'.signer = k[2] /\ last'.bet_id = k[1])
          => IF entry_state[k].is_claimed
             THEN /\ last'.res = "AlreadyClaimed"
                  /\ last'.paid = 0
                  /\ sol_vault' = sol_vault
                  /\ transfers' = transfers
                  /\ entry_state'[k].is_claimed
             ELSE last'.res = "Ok" => entry_state'[k].is_claimed]_vars

\* A second claim has just been refused on an entry that was paid.
C9_SecondClaimRefused ==
    /\ last.op = "claim" /\ last.res = "AlreadyClaimed"
    /\ EntryExists(last.bet_id, last.signer)
    /\ entry_state[<<last.bet_id, last.signer>>].is_claimed
    /\ transfers[last.bet_id].payouts > 0

\* The entry is on the side that lost its resolved market.
Losing(k) ==
    /\ pool_state[k[1]].complete
    /\ entry_state[k].is_yes # (pool_state[k[1]].winner = "yes")

\* C10: a losing entry is never claimed; a claim on it returns WrongBet, and
\* the claim that has just run on it returned WrongBet and moved no lamports.
C10_LosingEntryNeverPaid ==
    \A k \in DOMAIN entry_state :
        Losing(k) =>
            /\ ~entry_state[k].is_claimed
            /\ claim_result(k[2], k[1]) = "WrongBet"
            /\ LastIs("claim", k[2], k[1])
                   => last.res = "WrongBet" /\ last.paid = 0

\* A claim has just been refused on a losing entry that holds tokens.
C10_LosingClaimRefused ==
    /\ last.op = "claim" /\ last.res = "WrongBet"
    /\ EntryExists(last.bet_id, last.signer)
    /\ Losing(<<last.bet_id, last.signer>>)
    /\ entry_state[<<last.bet_id, last.signer>>].token_balance > 0

-----------------------------------------------------------------------------
(* An open-ended market under changing fee parameters, with deposits small *)
(* enough that the payout of a claim can be recomputed with plain integer  *)
(* arithmetic.                                                             *)

\* Fee parameters in basis points: the defaults, and a pair whose sum exceeds
\* 10000.
FeeSettings == {<<CREATOR_FEE_PERCENT, PLATFORM_FEE_PERCENT>>, <<4000, 7000>>}

FeeInputs ==
    {[owner |-> "k1", initial_price |-> INITIAL_PRICE,
      scale_factor |-> SCALE_FACTOR,
      creator_fee_percent |-> f[1], platform_fee_percent |-> f[2]] :
        f \in FeeSettings}

SmallAmounts == {1000}

SmallDepositInputs ==
    {[bet_id |-> b, is_yes |-> y, amount |-> a] :
        b \in BetIds, y \in BOOLEAN, a \in SmallAmounts}

UpdateFees == \E input \in FeeInputs : update_main_state("k1", input)

DepositSmall ==
    \E user \in Bettors, input \in SmallDepositInputs :
        /\ PoolExists(input.bet_id) =>
               Len(history_state[input.bet_id].points) <= MaxDeposits
        /\ deposit(user, input)

NextFees ==
    \/ InitMainState
    \/ UpdateFees
    \/ CreatePoolOpen
    \/ CreateEntry
    \/ DepositSmall
    \/ SetWinner
    \/ Claim
    \/ ClaimCreatorFee

SpecFees == Init /\ [][NextFees]_vars

\* The payout the claim of entry k is due in the current state, computed
\* directly: the principal plus token_balance * available_profit /
\* winning_supply, the fees being percent / 10000 of both reserves.
PayoutDue(k) ==
    LET pool == pool_state[k[1]]
        entry == entry_state[k]
        yes_wins == pool.winner = "yes"
        total == pool.yes_reserve + pool.no_reserve
        winning == IF yes_wins THEN pool.yes_reserve ELSE pool.no_reserve
        supply == IF yes_wins THEN pool.yes_supply ELSE pool.no_supply
        creator_fee == (total * main_state.creator_fee_percent) \div 10000
        platform_fee == (total * main_state.platform_fee_percent) \div 10000
        left == total - winning - creator_fee - platform_fee
        available_profit == IF left > 0 THEN left ELSE 0
        profit_share == IF available_profit > 0
                        THEN (entry.token_balance * available_profit) \div supply
                        ELSE 0
    IN  entry.deposited_sol_amount + profit_share

\* C11: every successful claim pays the entry's deposited_sol_amount plus
\* token_balance * available_profit / winning_supply (nothing on top when
\* available_profit is 0), which is never less than deposited_sol_amount,
\* whatever the reserves and the fee parameters are.
C11_PayoutIsPrincipalPlusProfitShare ==
    [][\A k \in DOMAIN entry_state :
          (/\ last'.op = "claim" /\ last'.res = "Ok"
           /\ last'.signer = k[2] /\ last'.bet_id = k[1])
          => /\ last'.paid = PayoutDue(k)
             /\ last'.paid >= entry_state[k].deposited_sol_amount
             /\ sol_vault' = sol_vault - last'.paid]_vars

\* A claim has just been paid on a market with deposits on the losing side,
\* under fee parameters that sum to 10000 basis points or more.
C11_ClaimPaidUnderFeesAboveAll ==
    /\ last.op = "claim" /\ last.res = "Ok"
    /\ main_state.creator_fee_percent + main_state.platform_fee_percent >= 10000
    /\ pool_state[last.bet_id].yes_reserve > 0
    /\ pool_state[last.bet_id].no_reserve > 0
    /\ last.paid = entry_state[<<last.bet_id, last.signer>>].deposited_sol_amount
    /\ last.paid > 0

-----------------------------------------------------------------------------
(* The registry and the identities it and its markets trust: the owner can *)
(* hand the registry over, markets are created one after the other and     *)
(* their referee can be replaced, and every identity tries update_pool and *)
(* set_winner.  The markets are open-ended and take no deposits here.      *)

\* Bound of the runs: the markets the registry creates.
MaxMarkets == 2

MarketIds == 0..(MaxMarkets - 1)

\* update_main_state inputs: the owner kept or replaced, under each fee setting.
RegistryInputs ==
    {[owner |-> o, initial_price |-> INITIAL_PRICE,
      scale_factor |-> SCALE_FACTOR,
      creator_fee_percent |-> f[1], platform_fee_percent |-> f[2]] :
        o \in {"k1", "k2"}, f \in FeeSettings}

\* create_pool inputs: an open-ended market, and a title too long.
RegistryPoolInputs ==
    OpenPoolInputs \cup
    {[title |-> Str(MAX_TITLE_LEN + 1), description |-> Str(1),
      end_timestamp |-> -1, referee |-> "k3"]}

\* update_pool inputs: the referee replaced.
RegistryUpdatePoolInputs ==
    {[bet_id |-> b, title |-> None, description |-> None,
      end_timestamp |-> None, referee |-> Some("k2")] : b \in MarketIds}

RegistrySetWinnerInputs ==
    {[bet_id |-> b, is_yes |-> y] : b \in MarketIds, y \in BOOLEAN}

UpdateRegistry ==
    \E owner \in {"k1", "k2"}, input \in RegistryInputs :
        update_main_state(owner, input)

CreatePoolNext ==
    /\ main_state.current_bet_id \in MarketIds
    /\ \E creator \in {"k2"}, input \in RegistryPoolInputs :
            create_pool(creator, input)

UpdatePoolAny ==
    \E updater \in Keys, input \in RegistryUpdatePoolInputs :
        update_pool(updater, input)

SetWinnerAny ==
    \E referee \in Keys, input \in RegistrySetWinnerInputs :
        set_winner(referee, input)

NextRegistry ==
    \/ InitMainState
    \/ UpdateRegistry
    \/ CreatePoolNext
    \/ UpdatePoolAny
    \/ SetWinnerAny

SpecRegistry == Init /\ [][NextRegistry]_vars

\* The accounts and the vault are as they were.
NothingWritten ==
    UNCHANGED <<main_state, pool_state, history_state, entry_state, sol_vault,
                transfers>>

\* The instruction that has just run (last') on market b is op, b being a
\* market of the state it ran in.
Runs(op, b) == last'.op = op /\ last'.bet_id = b /\ PoolExists(b)

\* C12: a market is created unresolved and becomes complete only in a
\* successful set_winner signed by its referee or by the registry owner of
\* that moment; a set_winner on an unresolved market signed by anyone else
\* returns Unauthorized and writes nothing.
C12_ResolvedOnlyByRefereeOrOwner ==
    [][/\ \A b \in (DOMAIN pool_state') \ (DOMAIN pool_state) :
              ~pool_state'[b].complete
       /\ \A b \in DOMAIN pool_state :
              ~pool_state[b].complete =>
                  LET trusted == {pool_state[b].referee, main_state.owner} IN
                  /\ pool_state'[b].complete =>
                        /\ last'.op = "set_winner" /\ last'.res = "Ok"
                        /\ last'.bet_id = b
                        /\ last'.signer \in trusted
                  /\ (/\ last'.op = "set_winner" /\ last'.bet_id = b
                      /\ last'.signer \notin trusted)
                     => last'.res = "Unauthorized" /\ NothingWritten]_vars

\* A market has just been resolved by the identity that took the registry
\* over, which is not the market's referee, after the first owner handed it on.
C12_ResolvedByNewOwner ==
    /\ last.op = "set_winner" /\ last.res = "Ok"
    /\ last.signer = main_state.owner /\ last.signer # "k1"
    /\ pool_state[last.bet_id].complete
    /\ pool_state[last.bet_id].referee # last.signer

\* C15: update_pool signed by anyone but the market's creator or the registry
\* owner returns Unauthorized, update_pool on a complete market returns
\* BetComplete, both write nothing; and the title, description, end_timestamp
\* and referee of a market change only in a successful update_pool signed by
\* its creator or the owner while it is not complete.
C15_UpdateOnlyByCreatorOrOwnerBeforeComplete ==
    [][\A b \in DOMAIN pool_state :
          LET pool == pool_state[b]
              allowed == {pool.creator, main_state.owner}
              updated == /\ Runs("update_pool", b) /\ last'.res = "Ok"
                         /\ last'.signer \in allowed /\ ~pool.complete
          IN
          /\ Runs("update_pool", b) =>
                /\ last'.signer \notin allowed =>
                      last'.res = "Unauthorized" /\ NothingWritten
                /\ (last'.signer \in allowed /\ pool.complete) =>
                      last'.res = "BetComplete" /\ NothingWritten
                /\ last'.res = "Ok" => updated
          /\ (\/ pool_state'[b].title # pool.title
              \/ pool_state'[b].description # pool.description
              \/ pool_state'[b].end_timestamp # pool.end_timestamp
              \/ pool_state'[b].referee # pool.referee) => updated]_vars

\* The creator of a resolved market has just been refused an update of it.
C15_CreatorRefusedOnCompleteMarket ==
    /\ last.op = "update_pool" /\ last.res = "BetComplete"
    /\ PoolExists(last.bet_id)
    /\ pool_state[last.bet_id].complete
    /\ last.signer = pool_state[last.bet_id].creator

\* C16: current_bet_id is 0 after init_main_state, never decreases, grows by
\* exactly 1 in a successful create_pool and in no other step; the market
\* created takes the value it had before the step, which no market held yet,
\* so every market is stored under its own bet_id and current_bet_id is the
\* number of markets.
C16_BetIdCountsMarkets ==
    [][LET before == main_state.current_bet_id
           after == main_state'.current_bet_id
           created == last'.op = "create_pool" /\ last'.res = "Ok"
       IN
       /\ (last'.op = "init_main_state" /\ last'.res = "Ok") => after = 0
       /\ after >= before
       /\ IF created
          THEN /\ after = before + 1
               /\ before \notin DOMAIN pool_state
               /\ DOMAIN pool_state' = (DOMAIN pool_state) \cup {before}
               /\ pool_state'[before].bet_id = before
          ELSE after = before /\ DOMAIN pool_state' = DOMAIN pool_state
       /\ after = Cardinality(DOMAIN pool_state')
       /\ \A b \in DOMAIN pool_state' : pool_state'[b].bet_id = b]_vars

\* A second market has just been created, under bet_id 1.
C16_SecondMarketCreated ==
    /\ last.op = "create_pool" /\ last.res = "Ok" /\ last.bet_id = 1
    /\ main_state.current_bet_id = 2
    /\ DOMAIN pool_state = {0, 1}

\* C17: update_main_state succeeds only on an initialized registry and signed
\* by its owner of that moment, anyone else being refused with Unauthorized
\* and nothing written; the owner it writes is from then on the identity that
\* update_main_state accepts and that update_pool and set_winner accept as
\* owner.
C17_RegistryFollowsCurrentOwner ==
    [][/\ last'.op = "update_main_state" =>
             /\ last'.res = "Ok" <=>
                   (main_state.initialized /\ last'.signer = main_state.owner)
             /\ (main_state.initialized /\ last'.signer # main_state.owner) =>
                   last'.res = "Unauthorized" /\ NothingWritten
       /\ \A b \in DOMAIN pool_state :
             (/\ last'.op \in {"update_pool", "set_winner"}
              /\ last'.bet_id = b /\ ~pool_state[b].complete) =>
                 /\ last'.signer = main_state.owner => last'.res = "Ok"
                 /\ last'.res = "Ok" =>
                       \/ last'.signer = main_state.owner
                       \/ last'.signer = pool_state[b].creator
                              /\ last'.op = "update_pool"
                       \/ last'.signer = pool_state[b].referee
                              /\ last'.op = "set_winner"]_vars

\* The first owner, having handed the registry on, has just been refused an
\* update of it.
C17_PreviousOwnerRefused ==
    /\ last.op = "update_main_state" /\ last.res = "Unauthorized"
    /\ last.signer = "k1"
    /\ main_state.initialized /\ main_state.owner = "k2"

\* C18: the two fee parameters of an initialized registry sum to less than
\* 10000 basis points.
C18_FeeSumBelowAll ==
    main_state.initialized =>
        main_state.creator_fee_percent + main_state.platform_fee_percent < 10000


-----------------------------------------------------------------------------
(* One market, created with a deadline or open-ended and switched between  *)
(* the two by update_pool, under a running clock, with one bettor.         *)

\* end_timestamp values: open-ended, and one second after the clock's start.
EndTimestamps == {-1} \cup Deadlines

DeadlinePoolInputs ==
    {[title |-> Str(1), description |-> Str(1), end_timestamp |-> e,
      referee |-> "k3"] : e \in EndTimestamps}

DeadlineUpdatePoolInputs ==
    {[bet_id |-> b, title |-> None, description |-> None,
      end_timestamp |-> Some(e), referee |-> None] :
        b \in BetIds, e \in EndTimestamps}

CreatePoolEither ==
    /\ main_state.current_bet_id \in BetIds
    /\ \E creator \in {"k2"}, input \in DeadlinePoolInputs :
            create_pool(creator, input)

UpdatePoolDeadline ==
    \E updater \in {"k2"}, input \in DeadlineUpdatePoolInputs :
        update_pool(updater, input)

CreateEntryOne == \E user \in {"k2"}, bet_id \in BetIds : create_entry(user, bet_id)

DepositOne ==
    \E user \in {"k2"}, input \in DepositInputs :
        /\ PoolExists(input.bet_id) =>
               Len(history_state[input.bet_id].points) <= MaxDeposits
        /\ deposit(user, input)

ClaimOne == \E user \in {"k2"}, bet_id \in BetIds : claim(user, bet_id)

NextDeadline ==
    \/ InitMainState
    \/ CreatePoolEither
    \/ UpdatePoolDeadline
    \/ CreateEntryOne
    \/ DepositOne
    \/ SetWinner
    \/ ClaimOne
    \/ ClaimCreatorFee
    \/ Tick

SpecDeadline == Init /\ [][NextDeadline]_vars

\* C13: on a market with end_timestamp >= 0, create_entry and deposit succeed
\* only while now < end_timestamp and their deadline check answers BetEnded;
\* set_winner, claim and claim_creator_fee succeed only once now >
\* end_timestamp and their deadline check answers BetNotEnded.  On a market
\* with end_timestamp < 0 nothing returns BetEnded or BetNotEnded: the
\* referee's set_winner and a deposit on an unresolved market succeed at any
\* clock value.
C13_SignOfEndTimestampSelectsDeadlineRule ==
    [][\A b \in DOMAIN pool_state :
          LET pool == pool_state[b]
              fixed == pool.end_timestamp >= 0
              early == {"create_entry", "deposit"}
              late == {"set_winner", "claim", "claim_creator_fee"}
              k == <<b, last'.signer>>
          IN
          /\ (fixed /\ last'.op \in early /\ Runs(last'.op, b)) =>
                /\ last'.res = "Ok" => now < pool.end_timestamp
                /\ last'.res = "BetEnded" => now >= pool.end_timestamp
                /\ (/\ now >= pool.end_timestamp /\ ~pool.complete
                    /\ last'.op = "deposit" => k \in DOMAIN entry_state)
                   => last'.res = "BetEnded"
          /\ (fixed /\ last'.op \in late /\ Runs(last'.op, b)) =>
                /\ last'.res = "Ok" => now > pool.end_timestamp
                /\ last'.res = "BetNotEnded" => now <= pool.end_timestamp
                /\ (/\ now <= pool.end_timestamp
                    /\ last'.op = "set_winner" =>
                          /\ ~pool.complete
                          /\ last'.signer \in {pool.referee, main_state.owner}
                    /\ last'.op = "claim" =>
                          /\ k \in DOMAIN entry_state
                          /\ ~entry_state[k].is_claimed
                    /\ last'.op = "claim_creator_fee" =>
                          /\ last'.signer = pool.creator
                          /\ ~pool.creator_fee_claimed)
                   => last'.res = "BetNotEnded"
          /\ (~fixed /\ Runs(last'.op, b)) =>
                /\ last'.res \notin {"BetEnded", "BetNotEnded"}
                /\ (/\ last'.op = "set_winner" /\ ~pool.complete
                    /\ last'.signer = pool.referee)
                   => last'.res = "Ok"
                /\ (/\ last'.op = "create_entry" /\ ~pool.complete)
                   => last'.res = "Ok"
                /\ (/\ last'.op = "deposit" /\ ~pool.complete
                    /\ k \in DOMAIN entry_state
                    /\ \/ entry_state[k].token_balance = 0
                       \/ entry_state[k].is_yes = last'.is_yes)
                   => last'.res = "Ok"]_vars

\* The referee has just resolved an open-ended market that holds deposits,
\* at the last clock value of the run.
C13_OpenEndedResolvedLate ==
    /\ last.op = "set_winner" /\ last.res = "Ok"
    /\ pool_state[last.bet_id].end_timestamp < 0
    /\ pool_state[last.bet_id].total_reserve > 0
    /\ now = MaxTime

-----------------------------------------------------------------------------
(* One open-ended market that takes more deposits than its history holds   *)
(* points, from one bettor on one side, under a running clock.             *)

\* Bound of the runs: the deposits the market takes.
MaxHistoryDeposits == 42

HistoryDepositInputs ==
    {[bet_id |-> b, is_yes |-> TRUE, amount |-> a] :
        b \in BetIds, a \in SmallAmounts}

DepositMany ==
    \E user \in {"k2"}, input \in HistoryDepositInputs :
        /\ PoolExists(input.bet_id) =>
               pool_state[input.bet_id].total_reserve
                   < MaxHistoryDeposits * input.amount
        /\ deposit(user, input)

\* The bettor opens the entry once.
CreateEntryOnce ==
    \E user \in {"k2"}, bet_id \in BetIds :
        /\ ~EntryExists(bet_id, user)
        /\ create_entry(user, bet_id)

\* The clock values of these runs.
HistoryClock == {0, 1}

TickHistory == (now + 1) \in HistoryClock /\ tick

NextHistory ==
    \/ InitMainState
    \/ CreatePoolOpen
    \/ CreateEntryOnce
    \/ DepositMany
    \/ TickHistory

SpecHistory == Init /\ [][NextHistory]_vars

\* C14: the history of every market holds at least 1 and at most 40 points,
\* and no point carries an earlier timestamp than the point before it.
C14_HistoryBoundedAndChronological ==
    \A b \in DOMAIN pool_state :
        LET points == history_state[b].points IN
        /\ Len(points) >= 1
        /\ Len(points) <= 40
        /\ \A i \in 1..(Len(points) - 1) :
               points[i].timestamp <= points[i + 1].timestamp

\* A deposit has just landed on a market that had taken 40 deposits or more:
\* the history is full, its creation point is gone, and its points span more
\* than one clock value.
C14_HistoryFullAfterDrain ==
    /\ last.op = "deposit" /\ last.res = "Ok"
    /\ pool_state[last.bet_id].total_reserve > 40 * last.amount
    /\ Len(history_state[last.bet_id].points) = 40
    /\ history_state[last.bet_id].points[1].yes_reserve > 0
    /\ history_state[last.bet_id].points[1].timestamp
           < history_state[last.bet_id].points[40].timestamp

-----------------------------------------------------------------------------
(* The prices of the pricing helper over the whole range of its u64        *)
(* reserves.  A number beyond 32 bits is the sequence of its base-10000    *)
(* digits, least significant first, eight of them (the u128 products of    *)
(* the helper stay below 10^29).                                           *)

Limbs == 1..8

\* The u64 written as five groups of four decimal digits, most significant
\* first.
U64(a, b, c, d, e) == <<e, d, c, b, a, 0, 0, 0>>

\* A number below 2^31 as digits.
ToWide(n) ==
    [i \in Limbs |->
        IF i = 1 THEN n % 10000
        ELSE IF i = 2 THEN (n \div 10000) % 10000
        ELSE IF i = 3 THEN n \div 100000000
        ELSE 0]

\* The digits of the number whose i-th digit position holds raw[i], carries
\* propagated from position i on.
RECURSIVE WCarry(_, _, _)
WCarry(raw, i, c) ==
    IF i \notin Limbs THEN << >>
    ELSE LET v == raw[i] + c
         IN  <<v % 10000>> \o WCarry(raw, i + 1, v \div 10000)

WAdd(a, b) == WCarry([i \in Limbs |-> a[i] + b[i]], 1, 0)

RECURSIVE WDot(_, _, _, _)
WDot(a, b, k, i) ==
    IF i > k THEN 0 ELSE a[i] * b[k + 1 - i] + WDot(a, b, k, i + 1)

WMul(a, b) == WCarry([k \in Limbs |-> WDot(a, b, k, 1)], 1, 0)

WLeq(a, b) ==
    LET differ == {i \in Limbs : a[i] # b[i]} IN
    \/ differ = {}
    \/ LET top == CHOOSE i \in differ : \A j \in differ : j <= i
       IN  a[top] < b[top]

\* num / den for a quotient below 2^30, one bit of the quotient at a time from
\* the highest: the bit is set when den times the quotient so far with the bit
\* set does not exceed num.
RECURSIVE WDivBits(_, _, _, _)
WDivBits(num, den, q, bit) ==
    IF bit < 0 THEN q
    ELSE LET t == q + 2^bit
         IN  IF WLeq(WMul(den, ToWide(t)), num)
             THEN WDivBits(num, den, t, bit - 1)
             ELSE WDivBits(num, den, q, bit - 1)

WDiv(num, den) == WDivBits(num, den, 0, 29)

\* <<yes_price, no_price>> of calculate_token_amount_and_prices, for reserves
\* given as digits.
calculate_prices_u64(yes_reserve, no_reserve) ==
    LET virtual_yes == WAdd(yes_reserve, ToWide(VIRTUAL_AMOUNT))
        virtual_no == WAdd(no_reserve, ToWide(VIRTUAL_AMOUNT))
        denom == WAdd(virtual_yes, virtual_no)
        yes_price == WDiv(WMul(virtual_yes, ToWide(SCALE)), denom)
        no_price == WDiv(WMul(virtual_no, ToWide(SCALE)), denom)
    IN  <<yes_price, no_price>>

\* Reserves in lamports: none, one lamport, the deposit of the other runs,
\* one SOL, 58900 SOL, the largest reserve whose opposite price is not below 1 against an
\* empty side (10^18 - 2 * 10^9) and the next one, 10^18, 2^63, and u64::MAX.
ReserveSamples ==
    {U64(0, 0, 0, 0, 0),
     U64(0, 0, 0, 0, 1),
     U64(0, 0, 0, 2969, 6000),
     U64(0, 0, 10, 0, 0),
     U64(0, 58, 9000, 0, 0),
     U64(99, 9999, 9980, 0, 0),
     U64(99, 9999, 9980, 0, 1),
     U64(100, 0, 0, 0, 0),
     U64(922, 3372, 368, 5477, 5808),
     U64(1844, 6744, 737, 955, 1615)}

\* The helper is about to be called on a pair of reserves.
InitPricing ==
    /\ main_state = NoMainState
    /\ pool_state = << >>
    /\ history_state = << >>
    /\ entry_state = << >>
    /\ sol_vault = 0
    /\ transfers = << >>
    /\ now = 0
    /\ \E y \in ReserveSamples, n \in ReserveSamples :
          last = [op |-> "reserves", yes_reserve |-> y, no_reserve |-> n]

\* The helper computes the two prices.
Price ==
    /\ last.op = "reserves"
    /\ LET prices == calculate_prices_u64(last.yes_reserve, last.no_reserve)
       IN  last' = [op |-> "prices",
                    yes_reserve |-> last.yes_reserve,
                    no_reserve |-> last.no_reserve,
                    yes_price |-> prices[1], no_price |-> prices[2]]
    /\ UNCHANGED <<main_state, pool_state, history_state, entry_state,
                   sol_vault, transfers, now>>

NextPricing == Price

SpecPricing == InitPricing /\ [][NextPricing]_vars

\* C19: whatever the two u64 reserves, yes_price and no_price are both above
\* 0 and below SCALE, and they sum to SCALE or to SCALE - 1.
C19_PricesStrictlyInsideScale ==
    last.op = "prices" =>
        /\ 0 < last.yes_price /\ last.yes_price < 1000000000
        /\ 0 < last.no_price /\ last.no_price < 1000000000
        /\ last.yes_price + last.no_price \in {1000000000, 999999999}

-----------------------------------------------------------------------------
(* The first deposits of an open-ended market, in amounts from one lamport *)
(* to 0.045 SOL.                                                           *)

FirstAmounts == {1, 1000, 29696000, 45000000}

FirstDepositInputs ==
    {[bet_id |-> b, is_yes |-> y, amount |-> a] :
        b \in BetIds, y \in BOOLEAN, a \in FirstAmounts}

DepositFirst ==
    \E user \in Bettors, input \in FirstDepositInputs :
        /\ PoolExists(input.bet_id) =>
               Len(history_state[input.bet_id].points) < MaxDeposits
        /\ deposit(user, input)

NextFirst ==
    \/ InitMainState
    \/ CreatePoolOpen
    \/ CreateEntry
    \/ DepositFirst

SpecFirst == Init /\ [][NextFirst]_vars

\* C20: a successful deposit of amount a into a market whose reserves are
\* both 0 is priced at half of SCALE and mints 2 * a tokens: afterwards the
\* reserve of its side is a, the supply of its side is 2 * a, the other side
\* holds nothing, the entry holds a lamports and 2 * a tokens, and the history
\* has two points.
C20_FirstDepositAtHalfPrice ==
    [][\A b \in DOMAIN pool_state :
          (/\ Runs("deposit", b) /\ last'.res = "Ok"
           /\ pool_state[b].yes_reserve = 0 /\ pool_state[b].no_reserve = 0)
          => LET a == last'.amount
                 pool == pool_state'[b]
                 entry == entry_state'[<<b, last'.signer>>]
                 priced == calculate_token_amount_and_prices(
                               a, last'.is_yes, 0, 0)
             IN
             /\ priced[2] = 500000000 /\ priced[3] = 500000000
             /\ priced[1] = 2 * a
             /\ IF last'.is_yes
                THEN /\ pool.yes_reserve = a /\ pool.yes_supply = 2 * a
                     /\ pool.no_reserve = 0 /\ pool.no_supply = 0
                ELSE /\ pool.no_reserve = a /\ pool.no_supply = 2 * a
                     /\ pool.yes_reserve = 0 /\ pool.yes_supply = 0
             /\ pool.total_reserve = a /\ pool.total_supply = 2 * a
             /\ entry.deposited_sol_amount = a
             /\ entry.token_balance = 2 * a
             /\ entry.is_yes = last'.is_yes
             /\ Len(history_state'[b].points) = 2
             /\ history_state'[b].points[2].yes_reserve = pool.yes_reserve
             /\ history_state'[b].points[2].no_reserve = pool.no_reserve]_vars

\* The first deposit of a market has just landed, on no, for 0.045 SOL.
C20_FirstDepositLanded ==
    /\ last.op = "deposit" /\ last.res = "Ok"
    /\ ~last.is_yes /\ last.amount = 45000000
    /\ pool_state[last.bet_id].total_reserve = last.amount
    /\ Len(history_state[last.bet_id].points) = 2

-----------------------------------------------------------------------------
(* Properties of claim_creator_fee, under the instructions of the first   *)
(* specification.                                                          *)

\* C21: claim_creator_fee signed by anyone but the market's creator returns
\* Unauthorized; signed by the creator it returns AlreadyClaimed once the fee
\* is claimed, BetNotEnded or BetNotComplete on an unresolved market, and when
\* it succeeds the market is complete, the fee was not claimed before and is
\* claimed after, and it transfers (yes_reserve + no_reserve) *
\* creator_fee_percent / 10000 lamports; every other result transfers nothing.
C21_CreatorFeeOnceToCreatorAfterComplete ==
    [][\A b \in DOMAIN pool_state :
          Runs("claim_creator_fee", b) =>
              LET pool == pool_state[b] IN
              /\ last'.signer # pool.creator => last'.res = "Unauthorized"
              /\ (last'.signer = pool.creator /\ pool.creator_fee_claimed)
                 => last'.res = "AlreadyClaimed"
              /\ (/\ last'.signer = pool.creator /\ ~pool.creator_fee_claimed
                  /\ ~pool.complete)
                 => last'.res \in {"BetNotEnded", "BetNotComplete"}
              /\ last'.res = "Ok" =>
                    /\ last'.signer = pool.creator
                    /\ pool.complete /\ ~pool.creator_fee_claimed
                    /\ pool_state'[b].creator_fee_claimed
                    /\ last'.paid =
                          fee_of(pool, main_state.creator_fee_percent)
                    /\ sol_vault' = sol_vault - last'.paid
              /\ last'.res # "Ok" => last'.paid = 0 /\ NothingWritten]_vars

-----------------------------------------------------------------------------
(* The history as a window on the log of a market's points, under the      *)
(* instructions of the history specification: every deposit there is of    *)
(* the same amount on yes, so the j-th point of the log (the creation      *)
(* point being the 0-th) carries j deposits of yes reserve.               *)

\* The most recent 40 elements of a log, in order.
Recent(log) ==
    IF Len(log) > 40 THEN SubSeq(log, Len(log) - 40 + 1, Len(log)) ELSE log

\* The successful deposits market b has taken, each of the given amount.
DepositsTaken(b, amount) == pool_state[b].total_reserve \div amount

\* C22: the history of a market is the creation point (created_timestamp, 0,
\* 0) when the market is created, becomes the most recent 40 elements of
\* itself extended by the point (now, yes_reserve, no_reserve after the
\* deposit) in every successful deposit, and changes in no other step; so
\* after n deposits it holds min(n + 1, 40) points, which are the last ones
\* of the log in log order.
C22_HistoryIsWindowOfLog ==
    /\ [][/\ \A b \in (DOMAIN pool_state') \ (DOMAIN pool_state) :
                history_state'[b].points =
                    << [timestamp |-> pool_state'[b].created_timestamp,
                        yes_reserve |-> 0, no_reserve |-> 0] >>
          /\ \A b \in DOMAIN pool_state :
                IF Runs("deposit", b) /\ last'.res = "Ok"
                THEN history_state'[b].points =
                         Recent(Append(history_state[b].points,
                                       [timestamp |-> now,
                                        yes_reserve |-> pool_state'[b].yes_reserve,
                                        no_reserve |-> pool_state'[b].no_reserve]))
                ELSE history_state'[b].points = history_state[b].points]_vars
    /\ [](\A b \in DOMAIN pool_state :
             \A a \in SmallAmounts :
                LET n == DepositsTaken(b, a)
                    points == history_state[b].points
                    held == IF n + 1 < 40 THEN n + 1 ELSE 40
                IN  /\ Len(points) = held
                    /\ \A i \in 1..held :
                          /\ points[i].yes_reserve = a * (n + 1 - held + i - 1)
                          /\ points[i].no_reserve = 0)

\* A deposit has just landed on a market that had taken 41 deposits: the two
\* oldest points of the log are gone from the history.
C22_TwoOldestEvicted ==
    /\ last.op = "deposit" /\ last.res = "Ok"
    /\ DepositsTaken(last.bet_id, last.amount) = 42
    /\ Len(history_state[last.bet_id].points) = 40
    /\ history_state[last.bet_id].points[1].yes_reserve = 3 * last.amount
    /\ history_state[last.bet_id].points[40].yes_reserve = 42 * last.amount

-----------------------------------------------------------------------------
(* Failed instructions, under the instructions of the first specification. *)

-----------------------------------------------------------------------------
(* The three handlers that move lamports out of the vault, statement by    *)
(* statement, on an open-ended market.  A run of a handler that is going   *)
(* to return Ok is split at its writes and its transfer; `last.res` holds  *)
(* the position the run has reached until it holds the result, and the     *)
(* accounts hold what the handler has written so far.  A run that returns  *)
(* an error commits nothing and is one step, and no other instruction      *)
(* runs while a handler is in flight.                                      *)

\* The positions of a handler in flight: past its first checks, past the
\* write of its flag (or of complete and winner), past its transfer.
Positions == {"checked", "flagged", "transferred"}

InFlight(op, at) == last.op = op /\ last.res = at

Idle == last.res \notin Positions

\* `last` with the handler moved on to position (or result) at, having paid.
MovedTo(at, paid) == [last EXCEPT !.res = at, !.paid = paid]

\* set_winner, lines 15-29: the checks.
SetWinnerChecks ==
    /\ Idle
    /\ \E referee \in {"k2", "k3"}, input \in SetWinnerInputs :
          LET res == set_winner_result(referee, input) IN
          last' = Ran("set_winner", referee, input.bet_id, input.is_yes, 0,
                      IF res = "Ok" THEN "checked" ELSE res, 0)
    /\ UNCHANGED <<main_state, pool_state, history_state, entry_state,
                   sol_vault, transfers, now>>

\* set_winner, lines 33-38: complete and winner.
SetWinnerResolve ==
    /\ InFlight("set_winner", "checked")
    /\ pool_state' =
          [pool_state EXCEPT
              ![last.bet_id].complete = TRUE,
              ![last.bet_id].winner = IF last.is_yes THEN "yes" ELSE "no"]
    /\ last' = MovedTo("flagged", 0)
    /\ UNCHANGED <<main_state, history_state, entry_state, sol_vault,
                   transfers, now>>

\* set_winner, lines 42-65: the platform fee and its transfer.
SetWinnerTransfer ==
    /\ InFlight("set_winner", "flagged")
    /\ LET paid == set_winner_platform_fee(pool_state[last.bet_id]) IN
       /\ sol_vault' = sol_vault - paid
       /\ transfers' = [transfers EXCEPT ![last.bet_id].platform_fee = @ + paid]
       /\ last' = MovedTo("transferred", paid)
    /\ UNCHANGED <<main_state, pool_state, history_state, entry_state, now>>

\* set_winner, line 68: platform_fee_claimed.
SetWinnerMark ==
    /\ InFlight("set_winner", "transferred")
    /\ pool_state' =
          [pool_state EXCEPT ![last.bet_id].platform_fee_claimed = TRUE]
    /\ last' = MovedTo("Ok", last.paid)
    /\ UNCHANGED <<main_state, history_state, entry_state, sol_vault,
                   transfers, now>>

\* claim, lines 18-31: the checks (a run that fails at a later line fails
\* as a whole here).
ClaimChecks ==
    /\ Idle
    /\ \E user \in Bettors, bet_id \in BetIds :
          LET res == claim_result(user, bet_id) IN
          last' = Ran("claim", user, bet_id, FALSE, 0,
                      IF res = "Ok" THEN "checked" ELSE res, 0)
    /\ UNCHANGED <<main_state, pool_state, history_state, entry_state,
                   sol_vault, transfers, now>>

\* claim, line 33: is_claimed.
ClaimFlag ==
    /\ InFlight("claim", "checked")
    /\ entry_state' =
          [entry_state EXCEPT ![<<last.bet_id, last.signer>>].is_claimed = TRUE]
    /\ last' = MovedTo("flagged", 0)
    /\ UNCHANGED <<main_state, pool_state, history_state, sol_vault,
                   transfers, now>>

\* claim, lines 65-113: the payout and its transfer.
ClaimTransfer ==
    /\ InFlight("claim", "flagged")
    /\ LET paid == claim_amount(pool_state[last.bet_id],
                                entry_state[<<last.bet_id, last.signer>>])
       IN
       /\ sol_vault' = sol_vault - paid
       /\ transfers' = [transfers EXCEPT ![last.bet_id].payouts = @ + paid]
       /\ last' = MovedTo("Ok", paid)
    /\ UNCHANGED <<main_state, pool_state, history_state, entry_state, now>>

\* claim_creator_fee, lines 16-31: the checks.
ClaimCreatorFeeChecks ==
    /\ Idle
    /\ \E creator \in {"k2", "k3"}, bet_id \in BetIds :
          LET res == claim_creator_fee_result(creator, bet_id) IN
          last' = Ran("claim_creator_fee", creator, bet_id, FALSE, 0,
                      IF res = "Ok" THEN "checked" ELSE res, 0)
    /\ UNCHANGED <<main_state, pool_state, history_state, entry_state,
                   sol_vault, transfers, now>>

\* claim_creator_fee, line 34: creator_fee_claimed.
ClaimCreatorFeeFlag ==
    /\ InFlight("claim_creator_fee", "checked")
    /\ pool_state' =
          [pool_state EXCEPT ![last.bet_id].creator_fee_claimed = TRUE]
    /\ last' = MovedTo("flagged", 0)
    /\ UNCHANGED <<main_state, history_state, entry_state, sol_vault,
                   transfers, now>>

\* claim_creator_fee, lines 37-62: the creator fee and its transfer.
ClaimCreatorFeeTransfer ==
    /\ InFlight("claim_creator_fee", "flagged")
    /\ LET paid == claim_creator_fee_amount(pool_state[last.bet_id]) IN
       /\ sol_vault' = sol_vault - paid
       /\ transfers' = [transfers EXCEPT ![last.bet_id].creator_fee = @ + paid]
       /\ last' = MovedTo("Ok", paid)
    /\ UNCHANGED <<main_state, pool_state, history_state, entry_state, now>>

\* The other instructions, one step each, between the runs of the handlers.
InitMainStateBetween == Idle /\ InitMainState
CreatePoolBetween == Idle /\ CreatePoolOpen
CreateEntryBetween == Idle /\ CreateEntry
DepositBetween == Idle /\ DepositSmall

NextSteps ==
    \/ InitMainStateBetween
    \/ CreatePoolBetween
    \/ CreateEntryBetween
    \/ DepositBetween
    \/ SetWinnerChecks
    \/ SetWinnerResolve
    \/ SetWinnerTransfer
    \/ SetWinnerMark
    \/ ClaimChecks
    \/ ClaimFlag
    \/ ClaimTransfer
    \/ ClaimCreatorFeeChecks
    \/ ClaimCreatorFeeFlag
    \/ ClaimCreatorFeeTransfer

SpecSteps == Init /\ [][NextSteps]_vars

\* C24: in every step in which a handler transfers lamports out of the
\* vault, the flag of that handler is already set: is_claimed of the entry in
\* claim, creator_fee_claimed of the market in claim_creator_fee,
\* platform_fee_claimed of the market in set_winner.
C24_FlagSetBeforeTransfer ==
    [][sol_vault' < sol_vault =>
          /\ last.op = "claim" =>
                entry_state[<<last.bet_id, last.signer>>].is_claimed
          /\ last.op = "claim_creator_fee" =>
                pool_state[last.bet_id].creator_fee_claimed
          /\ last.op = "set_winner" =>
                pool_state[last.bet_id].platform_fee_claimed]_vars

-----------------------------------------------------------------------------
(* The pricing helper quoted again and again for one deposit while one of  *)
(* the two reserves grows.  `last` holds the arguments of the latest call, *)
(* the tokens it returned and the tokens the call before it returned.      *)

\* Reserves in lamports, neighbours included: the two sides together stay
\* below 2^31 - 2 * 10^9.
QuoteReserves == {0, 1, 2, 1000, 29696000, 29696001, 70000000}

\* What `last` records of a call of the helper.
Quoted(op, amount, is_yes, yes_reserve, no_reserve, before) ==
    [op |-> op, amount |-> amount, is_yes |-> is_yes,
     yes_reserve |-> yes_reserve, no_reserve |-> no_reserve,
     before |-> before,
     token_amount |->
        calculate_token_amount_and_prices(
            amount, is_yes, yes_reserve, no_reserve)[1]]

\* The helper has been called once, on some deposit and reserves.
InitQuote ==
    /\ main_state = NoMainState
    /\ pool_state = << >>
    /\ history_state = << >>
    /\ entry_state = << >>
    /\ sol_vault = 0
    /\ transfers = << >>
    /\ now = 0
    /\ \E a \in FirstAmounts, s \in BOOLEAN,
          y \in QuoteReserves, n \in QuoteReserves :
          last = Quoted("quote", a, s, y, n, 0)

\* The same deposit quoted against a larger yes reserve.
QuoteYesRaised ==
    /\ \E y \in QuoteReserves :
          /\ y > last.yes_reserve
          /\ last' = Quoted("yes_raised", last.amount, last.is_yes, y,
                            last.no_reserve, last.token_amount)
    /\ UNCHANGED <<main_state, pool_state, history_state, entry_state,
                   sol_vault, transfers, now>>

\* The same deposit quoted against a larger no reserve.
QuoteNoRaised ==
    /\ \E n \in QuoteReserves :
          /\ n > last.no_reserve
          /\ last' = Quoted("no_raised", last.amount, last.is_yes,
                            last.yes_reserve, n, last.token_amount)
    /\ UNCHANGED <<main_state, pool_state, history_state, entry_state,
                   sol_vault, transfers, now>>

NextQuote == QuoteYesRaised \/ QuoteNoRaised

SpecQuote == InitQuote /\ [][NextQuote]_vars

\* C25: for the same deposit amount and the same reserve on the other side,
\* a larger reserve on the side of the deposit never mints more tokens, and
\* for the same reserve on the side of the deposit a larger reserve on the
\* other side never mints fewer.
C25_TokensMonotoneInReserves ==
    /\ (last.op = "yes_raised" /\ last.is_yes)
       => last.token_amount <= last.before
    /\ (last.op = "no_raised" /\ ~last.is_yes)
       => last.token_amount <= last.before
    /\ (last.op = "yes_raised" /\ ~last.is_yes)
       => last.token_amount >= last.before
    /\ (last.op = "no_raised" /\ last.is_yes)
       => last.token_amount >= last.before

\* A deposit on no has just been quoted fewer tokens than before, the no
\* reserve having grown to 29696001 lamports.
C25_OneLamportFewerTokens ==
    /\ last.op = "no_raised" /\ ~last.is_yes
    /\ last.no_reserve = 29696001
    /\ last.token_amount < last.before
    /\ last.token_amount > 0

-----------------------------------------------------------------------------
(* Supplies and token balances, under the instructions of the first        *)
(* specification.                                                          *)

\* The entries of a market that are on one side.
EntriesOn(bet_id, is_yes) ==
    {k \in EntriesOf(bet_id) : entry_state[k].is_yes = is_yes}

RECURSIVE SumTokens(_)
SumTokens(keys) ==
    IF keys = {} THEN 0
    ELSE LET k == CHOOSE x \in keys : TRUE
         IN  entry_state[k].token_balance + SumTokens(keys \ {k})

\* C26: every market's yes_supply is the sum of token_balance over its
\* entries on yes, and its no_supply the sum over its entries on no.
C26_SupplyIsSumOfTokenBalances ==
    \A b \in DOMAIN pool_state :
        /\ pool_state[b].yes_supply = SumTokens(EntriesOn(b, TRUE))
        /\ pool_state[b].no_supply = SumTokens(EntriesOn(b, FALSE))

-----------------------------------------------------------------------------
(* The fees of a claim, under the instructions of the fee specification.   *)

\* C27: the platform fee a successful claim subtracts from the pool of its
\* market, (yes_reserve + no_reserve) * platform_fee_percent / 10000 at the
\* fee parameters of that moment, is the amount the set_winner of that market
\* transferred to the owner, whatever update_main_state ran in between.
C27_ClaimSubtractsPlatformFeePaidAtResolve ==
    [][\A b \in DOMAIN pool_state :
          (Runs("claim", b) /\ last'.res = "Ok")
          => fee_of(pool_state[b], main_state.platform_fee_percent)
                 = transfers[b].platform_fee]_vars

-----------------------------------------------------------------------------
(* What the claim flags imply, under the instructions of the open-ended    *)
(* specification.                                                          *)

\* C28: an entry with is_claimed set belongs to a complete market, is on the
\* side of that market's winner and holds tokens; a market with
\* creator_fee_claimed or platform_fee_claimed set is complete.
C28_ClaimFlagsImplyResolved ==
    /\ \A k \in DOMAIN entry_state :
          entry_state[k].is_claimed =>
              /\ pool_state[k[1]].complete
              /\ entry_state[k].is_yes = (pool_state[k[1]].winner = "yes")
              /\ entry_state[k].token_balance > 0
    /\ \A b \in DOMAIN pool_state :
          (pool_state[b].creator_fee_claimed \/ pool_state[b].platform_fee_claimed)
              => pool_state[b].complete

\* A market resolved no has a claimed entry and both of its fee flags set,
\* next to an entry that holds no tokens.
C28_ClaimedNextToEmptyEntry ==
    \E b \in DOMAIN pool_state :
        /\ pool_state[b].winner = "no"
        /\ pool_state[b].creator_fee_claimed
        /\ pool_state[b].platform_fee_claimed
        /\ \E k \in EntriesOf(b) : entry_state[k].is_claimed
        /\ \E k \in EntriesOf(b) : entry_state[k].token_balance = 0

-----------------------------------------------------------------------------
(* Resolved markets and the clock, under the instructions of the deadline  *)
(* specification.                                                          *)

\* C29: a complete market keeps its end_timestamp in every step and the
\* clock never goes backwards; every complete market with end_timestamp >= 0
\* has end_timestamp < now, and no claim or claim_creator_fee on a complete
\* market returns BetNotEnded.
C29_CompleteMarketStaysEnded ==
    /\ [](\A b \in DOMAIN pool_state :
             (pool_state[b].complete /\ pool_state[b].end_timestamp >= 0)
                 => pool_state[b].end_timestamp < now)
    /\ [][/\ now' >= now
          /\ \A b \in DOMAIN pool_state :
                pool_state[b].complete =>
                    /\ pool_state'[b].end_timestamp = pool_state[b].end_timestamp
                    /\ (Runs("claim", b) \/ Runs("claim_creator_fee", b))
                       => last'.res # "BetNotEnded"]_vars

\* The creator fee of a market with a deadline has just been claimed, at the
\* last clock value of the run, the market holding deposits.
C29_CreatorFeeClaimedLate ==
    /\ last.op = "claim_creator_fee" /\ last.res = "Ok"
    /\ pool_state[last.bet_id].end_timestamp >= 0
    /\ pool_state[last.bet_id].complete
    /\ pool_state[last.bet_id].total_reserve > 0
    /\ now = MaxTime

-----------------------------------------------------------------------------
(* The newest point of the history, under the instructions of the fee      *)
(* specification.                                                          *)

\* C30: the last point of every market's history carries the market's
\* current yes_reserve and no_reserve.
C30_LastPointHoldsCurrentReserves ==
    \A b \in DOMAIN pool_state :
        LET points == history_state[b].points IN
        /\ points # << >>
        /\ points[Len(points)].yes_reserve = pool_state[b].yes_reserve
        /\ points[Len(points)].no_reserve = pool_state[b].no_reserve

\* A second deposit has just landed, on the side the first one did not take:
\* the history holds three points with different reserves.
C30_SecondDepositOnOtherSide ==
    /\ last.op = "deposit" /\ last.res = "Ok"
    /\ LET points == history_state[last.bet_id].points IN
       /\ Len(points) = 3
       /\ points[3].yes_reserve > 0 /\ points[3].no_reserve > 0
       /\ points[2] # points[3]
       /\ IF last.is_yes THEN points[2].yes_reserve = 0
                         ELSE points[2].no_reserve = 0

=============================================================================
